---- MODULE Spec2Model ----
(***************************************************************************)
(* Model of the text-to-schedule pipeline of the Vorlesungs-Planer:        *)
(*   src/vorlesungen2.py      (depth-sensitive title cleaning)             *)
(*   src/ai_studio_code-3.py  (always-truncate title cleaning)             *)
(* Strings are sequences of one-character strings, so that the regular     *)
(* expressions, split/strip/replace and strptime/strftime are computed     *)
(* character by character.                                                 *)
(***************************************************************************)
EXTENDS Integers, Sequences, FiniteSets, TLC

VARIABLES
    variant,              \* which source file runs: "v2" or "ai"
    text,                 \* extract_events: the input text
    lines,                \* extract_events: text.split('\n')
    idx,                  \* extract_events: position of the for loop in lines
    current_block_lines,  \* extract_events: the block being collected
    blocks,               \* the arguments of the process_event_block calls, in order
    events,               \* extract_events: the records collected so far
    pc,                   \* extract_events: "start", "loop", "done" ("off" when not running)
    course_id,            \* clean_title_logic: argument
    raw_title,            \* clean_title_logic: argument
    final_title,          \* clean_title_logic: returned value
    tpc,                  \* clean_title_logic: "call", "ret" ("off" when not running)
    semester_start,       \* the semester range, as date ordinals
    semester_end,
    all_events,           \* detect_holiday_weeks: the records of the document
    active_weeks,         \* detect_holiday_weeks: ISO weeks with a dated session
    single_events_found,  \* detect_holiday_weeks: a dated record was seen
    holiday_list,         \* detect_holiday_weeks: the local list holiday_weeks
    h_current,            \* detect_holiday_weeks: the date of the 7-day walk
    h_idx,                \* detect_holiday_weeks: position of the for loop
    h_pc,                 \* detect_holiday_weeks: "for", "while", "done" ("off")
    holidays,             \* detect_holiday_weeks: the returned list
    selected_events,      \* generate_ics: the records chosen by the caller
    holiday_weeks,        \* generate_ics: the holiday weeks given by the caller
    calendar,             \* generate_ics: the Event objects added to c.events
    origin,               \* for each Event of calendar, the index of its record
    g_idx,                \* generate_ics: position of the for loop
    g_current,            \* generate_ics: the date of the weekly loop
    g_pc,                 \* generate_ics: "for", "while", "done" ("off")
    query,                \* the text of the search field (user_query)
    search_ids,           \* the trimmed non-empty tokens of query (search_tokens)
    f_idx,                \* position of the for loop over search_ids
    matched_events,       \* the records found for the tokens (found_events)
    final_events_to_process, \* the records chosen in the page (final_selection_variants)
    unique_events,        \* vorlesungen2.py: the records kept by the deduplication
    seen_signatures,      \* vorlesungen2.py: the keys seen by the deduplication
    u_idx,                \* vorlesungen2.py: position of the deduplication loop
    s_pc                  \* the page: "query", "filter", "select", "dedup", "done" ("off")

exVars == <<text, lines, idx, current_block_lines, blocks, events, pc>>
tiVars == <<course_id, raw_title, final_title, tpc>>
rangeVars == <<semester_start, semester_end>>
hoVars == <<all_events, active_weeks, single_events_found, holiday_list, h_current,
            h_idx, h_pc, holidays>>
icVars == <<selected_events, holiday_weeks, calendar, origin, g_idx, g_current, g_pc>>
dtVars == <<rangeVars, hoVars, icVars>>
uiVars == <<query, search_ids, f_idx, matched_events, final_events_to_process,
            unique_events, seen_signatures, u_idx, s_pc>>
vars == <<variant, uiVars, exVars, tiVars, dtVars>>

\* ---------------------------------------------------------------- bounds
MaxLines == 3        \* lines of an input text
MaxTitleLen == 4     \* characters of a raw title handed to clean_title_logic
MaxEvents == 3       \* records handed to detect_holiday_weeks
MaxWeeks == 5        \* whole weeks between semester start and semester end
MaxSelected == 2     \* records handed to generate_ics
MaxRecords == 3      \* records of the document the page searches

\* ------------------------------------------------------------ characters
Digit == {"0", "1", "2", "3", "4", "5", "6", "7", "8", "9"}

Letter == {"a", "b", "c", "d", "e", "f", "g", "h", "i", "j", "k", "l", "m",
           "n", "o", "p", "q", "r", "s", "t", "u", "v", "w", "x", "y", "z",
           "A", "B", "C", "D", "E", "F", "G", "H", "I", "J", "K", "L", "M",
           "N", "O", "P", "Q", "R", "S", "T", "U", "V", "W", "X", "Y", "Z",
           "ä", "ö", "ü", "Ä", "Ö", "Ü", "ß"}

\* \s of the re module
IsSpace(c) == c \in {" ", "\t", "\n", "\r", "\f"}

\* \w of the re module
IsWord(c) == c \in Letter \cup Digit \cup {"_"}

\* a falsy string value: None (an unmatched group, a failed search) or ""
None == <<>>

\* index of the last character of the longest run of digits that starts at i
\* (i - 1 when s[i] is no digit): a greedy \d* at i
RECURSIVE DigitsEnd(_, _)
DigitsEnd(s, i) ==
    IF i <= Len(s) /\ s[i] \in Digit THEN DigitsEnd(s, i + 1) ELSE i - 1

\* a greedy \s* at i
RECURSIVE SpaceEnd(_, _)
SpaceEnd(s, i) ==
    IF i <= Len(s) /\ IsSpace(s[i]) THEN SpaceEnd(s, i + 1) ELSE i - 1

\* a greedy [\w\.]* at i
RECURSIVE TokenEnd(_, _)
TokenEnd(s, i) ==
    IF i <= Len(s) /\ (IsWord(s[i]) \/ s[i] = ".") THEN TokenEnd(s, i + 1) ELSE i - 1

\* a greedy (\.\d+)* after the character at p
RECURSIVE DotGroupsEnd(_, _)
DotGroupsEnd(s, p) ==
    IF p + 2 <= Len(s) /\ s[p + 1] = "." /\ s[p + 2] \in Digit
    THEN DotGroupsEnd(s, DigitsEnd(s, p + 2))
    ELSE p

StartsWithAt(s, i, w) ==
    i + Len(w) - 1 <= Len(s) /\ SubSeq(s, i, i + Len(w) - 1) = w

\* str.count('.')
RECURSIVE CountDots(_)
CountDots(s) ==
    IF s = <<>> THEN 0
    ELSE (IF Head(s) = "." THEN 1 ELSE 0) + CountDots(Tail(s))

\* "-" in s
HasHyphen(s) == \E i \in 1..Len(s) : s[i] = "-"

\* s.split("-")[0]
RECURSIVE SplitHyphenFirst(_)
SplitHyphenFirst(s) ==
    IF s = <<>> \/ Head(s) = "-" THEN <<>>
    ELSE <<Head(s)>> \o SplitHyphenFirst(Tail(s))

\* s.lstrip(), s.rstrip(), s.strip()
RECURSIVE LStrip(_)
LStrip(s) == IF s # <<>> /\ IsSpace(Head(s)) THEN LStrip(Tail(s)) ELSE s

RECURSIVE RStrip(_)
RStrip(s) ==
    IF s # <<>> /\ IsSpace(s[Len(s)]) THEN RStrip(SubSeq(s, 1, Len(s) - 1)) ELSE s

Strip(s) == RStrip(LStrip(s))

\* s.replace('.', ':')
ReplaceDotColon(s) == [i \in 1..Len(s) |-> IF s[i] = "." THEN ":" ELSE s[i]]

\* the least element of a non-empty set of integers
Min(S) == CHOOSE x \in S : \A y \in S : x <= y

\* text.split('\n'): the pieces between consecutive newlines, one more than
\* there are newlines
SplitLines(s) ==
    LET nl == {i \in 1..Len(s) : s[i] = "\n"}
        \* the position of the k-th newline; 0 and Len(s) + 1 close the ends
        At(k) == IF k = 0 THEN 0
                 ELSE IF k = Cardinality(nl) + 1 THEN Len(s) + 1
                 ELSE CHOOSE p \in nl : Cardinality({q \in nl : q < p}) = k - 1
    IN  [k \in 1..(Cardinality(nl) + 1) |-> SubSeq(s, At(k - 1) + 1, At(k) - 1)]

\* "\n".join(ls)
RECURSIVE JoinLines(_)
JoinLines(ls) ==
    IF ls = <<>> THEN <<>>
    ELSE IF Len(ls) = 1 THEN ls[1]
    ELSE ls[1] \o <<"\n">> \o JoinLines(Tail(ls))

\* ----------------------------------------------------- the anchor pattern
\* ^(\d+(\.\d+)+) : index of the last character of group 1, 0 without a match
IdEnd(s) ==
    LET d == DigitsEnd(s, 1) IN
    IF d = 0 THEN 0
    ELSE LET e == DotGroupsEnd(s, d) IN IF e = d THEN 0 ELSE e

\* id_pattern.match(line): ^(\d+(\.\d+)+)\s+(.*)
id_pattern_match(line) ==
    LET e == IdEnd(line) IN e > 0 /\ e + 1 <= Len(line) /\ IsSpace(line[e + 1])

\* groups 1 and 3 of the match
IdGroup(line) == SubSeq(line, 1, IdEnd(line))
TitleGroup(line) == SubSeq(line, SpaceEnd(line, IdEnd(line) + 1) + 1, Len(line))

\* ------------------------------------------------------- title cleaning
\* mutant: the text before the first hyphen is returned untrimmed
clean_title_string_no_strip(title) ==
    IF HasHyphen(title) THEN SplitHyphenFirst(title) ELSE Strip(title)

\* ai_studio_code-3.py: cut at the first hyphen, always
clean_title_string(title) ==
    IF HasHyphen(title) THEN Strip(SplitHyphenFirst(title)) ELSE Strip(title)

\* mutant: the depth test dropped, every title is cut at its first hyphen
clean_title_logic_no_depth(cid, title) ==
    IF HasHyphen(title) THEN Strip(SplitHyphenFirst(title)) ELSE Strip(title)

\* vorlesungen2.py: cut at the first hyphen only for an id with one dot
clean_title_logic(cid, title) ==
    IF CountDots(cid) = 1 /\ HasHyphen(title)
    THEN Strip(SplitHyphenFirst(title))
    ELSE Strip(title)

\* ----------------------------------------------------- location markers
Raum == <<"R", "a", "u", "m">>
Aula == <<"A", "u", "l", "a">>
Hoersaal == <<"H", "ö", "r", "s", "a", "a", "l">>
TBA == <<"T", "B", "A">>

\* (Raum|Aula|Hörsaal) at i: the length of the keyword, 0 without a match
KeywordLenAt(s, i) ==
    IF StartsWithAt(s, i, Raum) THEN Len(Raum)
    ELSE IF StartsWithAt(s, i, Aula) THEN Len(Aula)
    ELSE IF StartsWithAt(s, i, Hoersaal) THEN Len(Hoersaal)
    ELSE 0

\* (Raum|Aula|Hörsaal)\s+([\w\.]+) at i: index of the last matched character,
\* 0 without a match
LocEndAt(s, i) ==
    LET k == KeywordLenAt(s, i) IN
    IF k = 0 THEN 0
    ELSE LET w == SpaceEnd(s, i + k) IN
         IF w < i + k THEN 0
         ELSE LET t == TokenEnd(s, w + 1) IN IF t < w + 1 THEN 0 ELSE t

\* re.search(r'(Raum|Aula|Hörsaal)\s+([\w\.]+)', s): group(0) of the leftmost
\* match, None without one
LocSearch(s) ==
    LET starts == {i \in 1..Len(s) : LocEndAt(s, i) > 0} IN
    IF starts = {} THEN None
    ELSE SubSeq(s, Min(starts), LocEndAt(s, Min(starts)))

\* --------------------------------------------------- the schedule pattern
Weekdays == {<<"M", "o">>, <<"D", "i">>, <<"M", "i">>, <<"D", "o">>,
             <<"F", "r">>, <<"S", "a">>, <<"S", "o">>}

NoMatch == [ok |-> FALSE]

\* \d{2}[.:]\d{2} at i
TimeAt(s, i) ==
    /\ i >= 1 /\ i + 4 <= Len(s)
    /\ s[i] \in Digit /\ s[i + 1] \in Digit
    /\ s[i + 2] \in {".", ":"}
    /\ s[i + 3] \in Digit /\ s[i + 4] \in Digit

\* (\d{2}[.:]\d{2})\s*-\s*(\d{2}[.:]\d{2}) at i
RangeAt(s, i) ==
    IF ~TimeAt(s, i) THEN NoMatch
    ELSE LET a == SpaceEnd(s, i + 5) IN
         IF ~(a + 1 <= Len(s) /\ s[a + 1] = "-") THEN NoMatch
         ELSE LET b == SpaceEnd(s, a + 2) IN
              IF ~TimeAt(s, b + 1) THEN NoMatch
              ELSE [ok |-> TRUE, start_time |-> SubSeq(s, i, i + 4),
                    end_time |-> SubSeq(s, b + 1, b + 5)]

\* (\d{2}\.\d{2}\.\d{2,4})\s+ at i: index of the last digit of the year, 0
\* without a match. The year is the whole run of digits before the white space.
DateEndAt(s, i) ==
    IF ~(/\ i + 7 <= Len(s)
         /\ s[i] \in Digit /\ s[i + 1] \in Digit /\ s[i + 2] = "."
         /\ s[i + 3] \in Digit /\ s[i + 4] \in Digit /\ s[i + 5] = ".")
    THEN 0
    ELSE LET y == DigitsEnd(s, i + 6) IN
         IF y - (i + 5) \in 2..4 /\ y + 1 <= Len(s) /\ IsSpace(s[y + 1])
         THEN y ELSE 0

\* the schedule pattern at i:
\* (Mo|Di|Mi|Do|Fr|Sa|So)\.?\s+(?:(\d{2}\.\d{2}\.\d{2,4})\s+)?
\* (\d{2}[.:]\d{2})\s*-\s*(\d{2}[.:]\d{2})
ScheduleAt(s, i) ==
    IF ~(i + 1 <= Len(s) /\ SubSeq(s, i, i + 1) \in Weekdays) THEN NoMatch
    ELSE LET p == IF i + 2 <= Len(s) /\ s[i + 2] = "." THEN i + 3 ELSE i + 2
             w == SpaceEnd(s, p)
             q == w + 1
             y == DateEndAt(s, q)
             withDate == IF y = 0 THEN NoMatch ELSE RangeAt(s, SpaceEnd(s, y + 1) + 1)
             without == RangeAt(s, q)
         IN  IF w < p THEN NoMatch
             ELSE IF withDate.ok
             THEN [ok |-> TRUE, weekday |-> SubSeq(s, i, i + 1),
                   date_str |-> SubSeq(s, q, y),
                   start_time |-> withDate.start_time, end_time |-> withDate.end_time]
             ELSE IF without.ok
             THEN [ok |-> TRUE, weekday |-> SubSeq(s, i, i + 1), date_str |-> None,
                   start_time |-> without.start_time, end_time |-> without.end_time]
             ELSE NoMatch

\* re.search of the schedule pattern: the leftmost match
TimeSearch(s) ==
    LET starts == {i \in 1..Len(s) : ScheduleAt(s, i).ok} IN
    IF starts = {} THEN NoMatch ELSE ScheduleAt(s, Min(starts))

\* "# Normalize Year": parts = date_str.split('.'); a 2-character parts[2] gets
\* the prefix "20". date_str matched \d{2}\.\d{2}\.\d{2,4}, so parts[2] is what
\* follows the 6th character.
NormalizeYear(date_str) ==
    IF Len(date_str) - 6 = 2
    THEN SubSeq(date_str, 1, 6) \o <<"2", "0">> \o SubSeq(date_str, 7, 8)
    ELSE date_str

single == "single"
recurring == "recurring"

\* the record appended for one matching line
MakeRecord(v, cid, title, default_location, line) ==
    LET m == TimeSearch(line)
        date_str == IF m.date_str # None THEN NormalizeYear(m.date_str) ELSE None
        line_loc == LocSearch(line)
        location == IF line_loc # None THEN line_loc ELSE default_location
        base == [id |-> cid, title |-> title,
                 full_label |-> cid \o <<" ">> \o title,
                 type |-> IF date_str # None THEN single ELSE recurring,
                 date |-> date_str, weekday |-> m.weekday,
                 start_time |-> ReplaceDotColon(m.start_time),
                 end_time |-> ReplaceDotColon(m.end_time),
                 location |-> location]
        \* ai_studio_code-3.py only: weekday + times as matched + location
        signature == m.weekday \o <<" ">> \o m.start_time \o <<"-">> \o m.end_time
                     \o <<" ", "@", " ">> \o location
    IN  IF v = "ai" THEN base @@ [signature |-> signature] ELSE base

\* the "for line in block_lines" loop of process_event_block
RECURSIVE BlockEvents(_, _, _, _, _)
BlockEvents(v, cid, title, default_location, ls) ==
    IF ls = <<>> THEN <<>>
    ELSE (IF TimeSearch(Head(ls)).ok
          THEN <<MakeRecord(v, cid, title, default_location, Head(ls))>>
          ELSE <<>>)
         \o BlockEvents(v, cid, title, default_location, Tail(ls))

\* mutant: the default is searched in the header line alone
DefaultLocationHeaderOnly(block_lines) ==
    LET m == LocSearch(block_lines[1]) IN IF m # None THEN m ELSE TBA

\* the block default: the first marker in "\n".join(block_lines), else "TBA"
DefaultLocation(block_lines) ==
    LET m == LocSearch(JoinLines(block_lines)) IN IF m # None THEN m ELSE TBA

process_event_block(v, block_lines) ==
    IF ~id_pattern_match(block_lines[1]) THEN <<>>
    ELSE LET cid == IdGroup(block_lines[1])
             raw == TitleGroup(block_lines[1])
             title == IF v = "ai" THEN clean_title_string(raw)
                      ELSE clean_title_logic(cid, raw)
         IN  BlockEvents(v, cid, title, DefaultLocation(block_lines), block_lines)

\* ------------------------------------------------- datetime arithmetic
\* the proleptic Gregorian calendar of the datetime module: a date is its
\* ordinal, day 1 being 01.01.0001, a Monday
IsLeap(y) == y % 4 = 0 /\ (y % 100 # 0 \/ y % 400 = 0)

DaysInMonth(y, m) ==
    IF m = 2 THEN (IF IsLeap(y) THEN 29 ELSE 28)
    ELSE IF m \in {4, 6, 9, 11} THEN 30 ELSE 31

DaysBeforeYear(y) ==
    (y - 1) * 365 + ((y - 1) \div 4) - ((y - 1) \div 100) + ((y - 1) \div 400)

\* _DAYS_BEFORE_MONTH, and one more after February of a leap year
DaysBeforeMonth(y, m) ==
    <<0, 31, 59, 90, 120, 151, 181, 212, 243, 273, 304, 334>>[m]
    + (IF m > 2 /\ IsLeap(y) THEN 1 ELSE 0)

\* date(y, m, d).toordinal()
Ordinal(y, m, d) == DaysBeforeYear(y) + DaysBeforeMonth(y, m) + d

\* date.fromordinal(n).year
YearOf(n) ==
    LET n0 == n - 1
        n400 == n0 \div 146097
        r400 == n0 % 146097
        n100 == r400 \div 36524
        r100 == r400 % 36524
        n4 == r100 \div 1461
        r4 == r100 % 1461
        n1 == r4 \div 365
        y == n400 * 400 + 1 + n100 * 100 + n4 * 4 + n1
    IN  IF n1 = 4 \/ n100 = 4 THEN y - 1 ELSE y

\* date.fromordinal(n).month and .day
MonthOf(n) ==
    LET y == YearOf(n)
        doy == n - DaysBeforeYear(y)
    IN  CHOOSE m \in 1..12 :
            DaysBeforeMonth(y, m) < doy /\ doy <= DaysBeforeMonth(y, m) + DaysInMonth(y, m)

DayOf(n) ==
    LET y == YearOf(n) IN n - DaysBeforeYear(y) - DaysBeforeMonth(y, MonthOf(n))

\* date.weekday(): Monday is 0
WeekdayOf(n) == (n + 6) % 7

\* the ordinal of the Monday of ISO week 1 of a year: the week with the year's
\* first Thursday
IsoWeek1Monday(y) ==
    LET firstday == Ordinal(y, 1, 1)
        firstweekday == (firstday + 6) % 7
        week1monday == firstday - firstweekday
    IN  IF firstweekday > 3 THEN week1monday + 7 ELSE week1monday

\* date.isocalendar()[1]
IsoWeek(n) ==
    LET y == YearOf(n)
        week == (n - IsoWeek1Monday(y)) \div 7
    IN  IF n < IsoWeek1Monday(y)
        THEN ((n - IsoWeek1Monday(y - 1)) \div 7) + 1
        ELSE IF week >= 52 /\ n >= IsoWeek1Monday(y + 1) THEN 1
        ELSE week + 1

\* ------------------------------------------------- strptime and strftime
DigitChars == <<"0", "1", "2", "3", "4", "5", "6", "7", "8", "9">>

DigitVal(c) == (CHOOSE k \in 1..10 : DigitChars[k] = c) - 1

AllDigits(s) == \A i \in 1..Len(s) : s[i] \in Digit

RECURSIVE NumVal(_)
NumVal(s) ==
    IF s = <<>> THEN 0
    ELSE (NumVal(SubSeq(s, 1, Len(s) - 1)) * 10) + DigitVal(s[Len(s)])

TwoDigits(n) == <<DigitChars[(n \div 10) + 1], DigitChars[(n % 10) + 1]>>

ParseError == [ok |-> FALSE]

\* datetime.strptime(s, '%d.%m.%Y') for the strings a record's date can be: two
\* digits, dot, two digits, dot, digits. %Y takes exactly four digits, %d is
\* 01..31, %m is 01..12, and the day must exist in the month.
ParseDate(s) ==
    IF ~(/\ Len(s) = 10 /\ s[3] = "." /\ s[6] = "."
         /\ AllDigits(SubSeq(s, 1, 2)) /\ AllDigits(SubSeq(s, 4, 5))
         /\ AllDigits(SubSeq(s, 7, 10)))
    THEN ParseError
    ELSE LET d == NumVal(SubSeq(s, 1, 2))
             m == NumVal(SubSeq(s, 4, 5))
             y == NumVal(SubSeq(s, 7, 10))
         IN  IF y >= 1 /\ m \in 1..12 /\ d >= 1 /\ d <= DaysInMonth(y, m)
             THEN [ok |-> TRUE, ordinal |-> Ordinal(y, m, d)]
             ELSE ParseError

\* the '%H:%M' part, for the strings a record's time can be: one or two
\* digits, colon, two digits. %H is 0..23 and %M is 00..59. The value is minutes
\* after 00:00.
ParseTime(s) ==
    IF ~(/\ Len(s) \in {4, 5} /\ s[Len(s) - 2] = ":"
         /\ AllDigits(SubSeq(s, 1, Len(s) - 3))
         /\ AllDigits(SubSeq(s, Len(s) - 1, Len(s))))
    THEN ParseError
    ELSE LET h == NumVal(SubSeq(s, 1, Len(s) - 3))
             mi == NumVal(SubSeq(s, Len(s) - 1, Len(s)))
         IN  IF h <= 23 /\ mi <= 59
             THEN [ok |-> TRUE, minutes |-> h * 60 + mi]
             ELSE ParseError

\* datetime.strptime(date + " " + time, '%d.%m.%Y %H:%M')
ParseDateTime(d, t) ==
    IF d = None THEN ParseError
    ELSE LET pd == ParseDate(d)
             pt == ParseTime(t)
         IN  IF pd.ok /\ pt.ok
             THEN [ok |-> TRUE, ordinal |-> pd.ordinal, minutes |-> pt.minutes]
             ELSE ParseError

\* current.strftime('%d.%m.%Y'), for a year of four digits
FormatDate(n) ==
    LET y == YearOf(n) IN
    TwoDigits(DayOf(n)) \o <<".">> \o TwoDigits(MonthOf(n)) \o <<".">>
    \o TwoDigits(y \div 100) \o TwoDigits(y % 100)

\* ------------------------------------------------------------- inputs
\* lines of a course catalogue, as pdfplumber's text has them
\* ""
LineEmpty == <<>>
\* "1.3 M - G"
LineModule == <<"1", ".", "3", " ", "M", " ", "-", " ", "G">>
\* "1.3.1 S-A Di 10:00-12:00 Raum A1"
LineCourse == <<"1", ".", "3", ".", "1", " ", "S", "-", "A", " ", "D", "i", " ", "1", "0", ":", "0", "0", "-", "1", "2", ":", "0", "0", " ", "R", "a", "u", "m", " ", "A", "1">>
\* "1.3"
LineBareId == <<"1", ".", "3">>
\* "Di 10:00-12:00"
LineWeekly == <<"D", "i", " ", "1", "0", ":", "0", "0", "-", "1", "2", ":", "0", "0">>
\* "Mo 05.01.24 08.15 - 09.45"
LineDated2 == <<"M", "o", " ", "0", "5", ".", "0", "1", ".", "2", "4", " ", "0", "8", ".", "1", "5", " ", "-", " ", "0", "9", ".", "4", "5">>
\* "Fr. 12.01.2024 10:00-12:00 Aula B.2"
LineDated4 == <<"F", "r", ".", " ", "1", "2", ".", "0", "1", ".", "2", "0", "2", "4", " ", "1", "0", ":", "0", "0", "-", "1", "2", ":", "0", "0", " ", "A", "u", "l", "a", " ", "B", ".", "2">>
\* "Mi 05.01.202 10:00-12:00"
LineDated3 == <<"M", "i", " ", "0", "5", ".", "0", "1", ".", "2", "0", "2", " ", "1", "0", ":", "0", "0", "-", "1", "2", ":", "0", "0">>
\* "Ort: Hörsaal H1"
LineRoom == <<"O", "r", "t", ":", " ", "H", "ö", "r", "s", "a", "a", "l", " ", "H", "1">>
\* "Do 08:00-09:00 Raum"
LineKeyword == <<"D", "o", " ", "0", "8", ":", "0", "0", "-", "0", "9", ":", "0", "0", " ", "R", "a", "u", "m">>
\* "A12 neu"
LineToken == <<"A", "1", "2", " ", "n", "e", "u">>

LinePool == {LineEmpty, LineModule, LineCourse, LineBareId, LineWeekly, LineDated2, LineDated4, LineDated3, LineRoom, LineKeyword, LineToken}
Id13 == <<"1", ".", "3">>
Id102 == <<"1", "0", ".", "2">>
Id131 == <<"1", ".", "3", ".", "1">>
Id1312 == <<"1", ".", "3", ".", "1", ".", "2">>
IdPool == {Id13, Id102, Id131, Id1312}
TitleChars == {"A", "-", " "}

\* the sequences over S of a length in lo..hi
SeqsOf(S, lo, hi) == UNION {[1..n -> S] : n \in lo..hi}

\* the records process_event_block makes of a schedule line under the header
\* "1.3 M - G"
SessionOf(weekday, date, start_time, end_time, location) ==
    [id |-> <<"1", ".", "3">>, title |-> <<"M">>,
     full_label |-> <<"1", ".", "3", " ", "M">>,
     type |-> IF date # None THEN single ELSE recurring,
     date |-> date, weekday |-> weekday,
     start_time |-> start_time, end_time |-> end_time, location |-> location]

\* "Di 10:00-12:00"
SessDi ==
    SessionOf(<<"D", "i">>, None,
              <<"1", "0", ":", "0", "0">>, <<"1", "2", ":", "0", "0">>, TBA)
\* "Mo. 08.15 - 09.45 Aula B.2"
SessMo ==
    SessionOf(<<"M", "o">>, None,
              <<"0", "8", ":", "1", "5">>, <<"0", "9", ":", "4", "5">>, <<"A", "u", "l", "a", " ", "B", ".", "2">>)
\* "Di 25:00-26:00"
SessBadStart ==
    SessionOf(<<"D", "i">>, None,
              <<"2", "5", ":", "0", "0">>, <<"2", "6", ":", "0", "0">>, TBA)
\* "Mi 10:00-12:75"
SessBadEnd ==
    SessionOf(<<"M", "i">>, None,
              <<"1", "0", ":", "0", "0">>, <<"1", "2", ":", "7", "5">>, TBA)
\* "Mo 06.01.25 10:00-12:00"
SessW2 ==
    SessionOf(<<"M", "o">>, <<"0", "6", ".", "0", "1", ".", "2", "0", "2", "5">>,
              <<"1", "0", ":", "0", "0">>, <<"1", "2", ":", "0", "0">>, TBA)
\* "Mo 20.01.2025 10:00-12:00"
SessW4 ==
    SessionOf(<<"M", "o">>, <<"2", "0", ".", "0", "1", ".", "2", "0", "2", "5">>,
              <<"1", "0", ":", "0", "0">>, <<"1", "2", ":", "0", "0">>, TBA)
\* "Fr 03.02.2025 14:00-16:00"
SessW6 ==
    SessionOf(<<"F", "r">>, <<"0", "3", ".", "0", "2", ".", "2", "0", "2", "5">>,
              <<"1", "4", ":", "0", "0">>, <<"1", "6", ":", "0", "0">>, TBA)
\* "Mo 05.01.2024 10:00-12:00"
SessOut ==
    SessionOf(<<"M", "o">>, <<"0", "5", ".", "0", "1", ".", "2", "0", "2", "4">>,
              <<"1", "0", ":", "0", "0">>, <<"1", "2", ":", "0", "0">>, TBA)
\* "Mi 31.02.2025 10:00-12:00"
SessBadDate ==
    SessionOf(<<"M", "i">>, <<"3", "1", ".", "0", "2", ".", "2", "0", "2", "5">>,
              <<"1", "0", ":", "0", "0">>, <<"1", "2", ":", "0", "0">>, TBA)
\* a record whose weekday is none of weekday_map's keys; process_event_block
\* makes none, generate_ics takes any record its caller passes
SessBadWeekday == [SessDi EXCEPT !.weekday = <<"X", "x">>]

\* the Monday of ISO week 52 of 2024
SemesterBase == Ordinal(2024, 12, 23)

\* semester ranges: starts on Mon and Wed of week 52 of 2024 and on Mon and Tue
\* of week 1 of 2025; ends a number of whole weeks later, or 6 days after that
StartOffsets == {0, 2, 7, 8}
PartialDays == {0, 6}
Ranges ==
    {<<SemesterBase + o, SemesterBase + o + 7 * w + r>> :
        o \in StartOffsets, w \in 0..MaxWeeks, r \in PartialDays}

HolidayEventPool == {SessDi, SessW2, SessW4, SessW6, SessBadDate}

SelectedPool == {SessDi, SessMo, SessBadStart, SessBadEnd, SessW2, SessOut,
                 SessBadDate, SessBadWeekday}

\* the holiday weeks a caller passes: none, one week, the first two weeks of
\* 2025, every other week
HolidayChoices == {<<>>, <<3>>, <<1, 2>>, <<1, 3, 5>>}

\* the ranges and holiday weeks of the batches of several records
BatchRanges == {<<SemesterBase + 2, SemesterBase + 15>>,
                <<SemesterBase + 7, SemesterBase + 27>>}
BatchHolidayChoices == {<<>>, <<1, 2>>}

\* ------------------------------------------------------- extract_events
ExtractOff ==
    /\ text = <<>> /\ lines = <<>> /\ idx = 0 /\ current_block_lines = <<>>
    /\ blocks = <<>> /\ events = <<>> /\ pc = "off"

TitleOff ==
    /\ course_id = <<>> /\ raw_title = <<>> /\ final_title = <<>> /\ tpc = "off"

HolidayOff ==
    /\ all_events = <<>> /\ active_weeks = {} /\ single_events_found = FALSE
    /\ holiday_list = <<>> /\ h_current = 0 /\ h_idx = 0 /\ h_pc = "off"
    /\ holidays = <<>>

IcsOff ==
    /\ selected_events = <<>> /\ holiday_weeks = <<>> /\ calendar = <<>>
    /\ origin = <<>> /\ g_idx = 0 /\ g_current = 0 /\ g_pc = "off"

RangeOff == semester_start = 0 /\ semester_end = 0

UiOff ==
    /\ query = <<>> /\ search_ids = <<>> /\ f_idx = 0 /\ matched_events = <<>>
    /\ final_events_to_process = <<>> /\ unique_events = <<>>
    /\ seen_signatures = {} /\ u_idx = 0 /\ s_pc = "off"

InitExtract ==
    /\ variant \in {"v2", "ai"}
    /\ \E ls \in SeqsOf(LinePool, 1, MaxLines) : text = JoinLines(ls)
    /\ lines = <<>> /\ idx = 0 /\ current_block_lines = <<>>
    /\ blocks = <<>> /\ events = <<>> /\ pc = "start"
    /\ TitleOff /\ RangeOff /\ HolidayOff /\ IcsOff /\ UiOff

\* lines = text.split('\n')
ExtractStart ==
    /\ pc = "start"
    /\ lines' = SplitLines(text)
    /\ idx' = 1
    /\ pc' = "loop"
    /\ UNCHANGED <<variant, uiVars, text, current_block_lines, blocks, events, tiVars, dtVars>>

\* "if match:" an anchor line closes the open block and opens the next
ExtractAnchor ==
    /\ pc = "loop" /\ idx <= Len(lines)
    /\ id_pattern_match(lines[idx])
    /\ IF current_block_lines # <<>>
       THEN /\ events' = events \o process_event_block(variant, current_block_lines)
            /\ blocks' = Append(blocks, current_block_lines)
       ELSE UNCHANGED <<events, blocks>>
    /\ current_block_lines' = <<lines[idx]>>
    /\ idx' = idx + 1
    /\ UNCHANGED <<variant, uiVars, text, lines, pc, tiVars, dtVars>>

\* "elif current_block_lines:" any other line joins the open block
ExtractContinuation ==
    /\ pc = "loop" /\ idx <= Len(lines)
    /\ ~id_pattern_match(lines[idx])
    /\ current_block_lines # <<>>
    /\ current_block_lines' = Append(current_block_lines, lines[idx])
    /\ idx' = idx + 1
    /\ UNCHANGED <<variant, uiVars, text, lines, blocks, events, pc, tiVars, dtVars>>

\* neither branch: a line before the first anchor
ExtractDiscard ==
    /\ pc = "loop" /\ idx <= Len(lines)
    /\ ~id_pattern_match(lines[idx])
    /\ current_block_lines = <<>>
    /\ idx' = idx + 1
    /\ UNCHANGED <<variant, uiVars, text, lines, current_block_lines, blocks, events, pc, tiVars, dtVars>>

\* mutant: the block still open at the end of the input is dropped
ExtractFinishNoFlush ==
    /\ pc = "loop" /\ idx > Len(lines)
    /\ pc' = "done"
    /\ UNCHANGED <<variant, uiVars, text, lines, idx, current_block_lines, blocks, events, tiVars, dtVars>>

\* after the loop: the trailing block, then return events
ExtractFinish ==
    /\ pc = "loop" /\ idx > Len(lines)
    /\ IF current_block_lines # <<>>
       THEN /\ events' = events \o process_event_block(variant, current_block_lines)
            /\ blocks' = Append(blocks, current_block_lines)
       ELSE UNCHANGED <<events, blocks>>
    /\ pc' = "done"
    /\ UNCHANGED <<variant, uiVars, text, lines, idx, current_block_lines, tiVars, dtVars>>

NextExtract ==
    \/ ExtractStart
    \/ ExtractAnchor
    \/ ExtractContinuation
    \/ ExtractDiscard
    \/ ExtractFinish

SpecExtract == InitExtract /\ [][NextExtract]_vars

\* ---------------------------------------------------- clean_title_logic
InitTitle ==
    /\ variant = "v2"
    /\ course_id \in IdPool
    /\ raw_title \in SeqsOf(TitleChars, 0, MaxTitleLen)
    /\ final_title = <<>>
    /\ tpc = "call"
    /\ ExtractOff /\ RangeOff /\ HolidayOff /\ IcsOff /\ UiOff

CleanTitle ==
    /\ tpc = "call"
    /\ final_title' = clean_title_logic(course_id, raw_title)
    /\ tpc' = "ret"
    /\ UNCHANGED <<variant, uiVars, course_id, raw_title, exVars, dtVars>>

NextTitle == CleanTitle

SpecTitle == InitTitle /\ [][NextTitle]_vars

\* ------------------------------------------------- detect_holiday_weeks
\* sorted(list(set(xs)))
RECURSIVE SortSet(_)
SortSet(S) == IF S = {} THEN <<>> ELSE <<Min(S)>> \o SortSet(S \ {Min(S)})

SeqRange(xs) == {xs[i] : i \in 1..Len(xs)}

InitHoliday ==
    /\ variant = "v2"
    /\ all_events \in SeqsOf(HolidayEventPool, 0, MaxEvents)
    /\ \E r \in Ranges : semester_start = r[1] /\ semester_end = r[2]
    /\ active_weeks = {} /\ single_events_found = FALSE
    /\ holiday_list = <<>> /\ h_current = 0 /\ h_idx = 1 /\ h_pc = "for"
    /\ holidays = <<>>
    /\ ExtractOff /\ TitleOff /\ IcsOff /\ UiOff

\* "for e in events", a dated record: the flag is set, then the date is parsed
\* and its week collected, a ValueError being passed over
HolCollectSingle ==
    /\ h_pc = "for" /\ h_idx <= Len(all_events)
    /\ all_events[h_idx].type = single /\ all_events[h_idx].date # None
    /\ single_events_found' = TRUE
    /\ active_weeks' =
          IF ParseDate(all_events[h_idx].date).ok
          THEN active_weeks \cup {IsoWeek(ParseDate(all_events[h_idx].date).ordinal)}
          ELSE active_weeks
    /\ h_idx' = h_idx + 1
    /\ UNCHANGED <<variant, uiVars, exVars, tiVars, rangeVars, icVars, all_events,
                   holiday_list, h_current, h_pc, holidays>>

\* "for e in events", any other record
HolCollectSkip ==
    /\ h_pc = "for" /\ h_idx <= Len(all_events)
    /\ ~(all_events[h_idx].type = single /\ all_events[h_idx].date # None)
    /\ h_idx' = h_idx + 1
    /\ UNCHANGED <<variant, uiVars, exVars, tiVars, rangeVars, icVars, all_events,
                   active_weeks, single_events_found, holiday_list, h_current,
                   h_pc, holidays>>

\* "if not single_events_found: return []"
HolNoSingles ==
    /\ h_pc = "for" /\ h_idx > Len(all_events)
    /\ ~single_events_found
    /\ holidays' = <<>>
    /\ h_pc' = "done"
    /\ UNCHANGED <<variant, uiVars, exVars, tiVars, rangeVars, icVars, all_events,
                   active_weeks, single_events_found, holiday_list, h_current, h_idx>>

\* "holiday_weeks = []; current = semester_start"
HolStartWalk ==
    /\ h_pc = "for" /\ h_idx > Len(all_events)
    /\ single_events_found
    /\ holiday_list' = <<>>
    /\ h_current' = semester_start
    /\ h_pc' = "while"
    /\ UNCHANGED <<variant, uiVars, exVars, tiVars, rangeVars, icVars, all_events,
                   active_weeks, single_events_found, h_idx, holidays>>

\* one pass of "while current <= semester_end"
HolStride ==
    /\ h_pc = "while" /\ h_current <= semester_end
    /\ holiday_list' = IF IsoWeek(h_current) \notin active_weeks
                       THEN Append(holiday_list, IsoWeek(h_current))
                       ELSE holiday_list
    /\ h_current' = h_current + 7
    /\ UNCHANGED <<variant, uiVars, exVars, tiVars, rangeVars, icVars, all_events,
                   active_weeks, single_events_found, h_idx, h_pc, holidays>>

\* mutant: the list is returned as the walk built it
HolReturnUnsorted ==
    /\ h_pc = "while" /\ h_current > semester_end
    /\ holidays' = holiday_list
    /\ h_pc' = "done"
    /\ UNCHANGED <<variant, uiVars, exVars, tiVars, rangeVars, icVars, all_events,
                   active_weeks, single_events_found, holiday_list, h_current, h_idx>>

\* "return sorted(list(set(holiday_weeks)))"
HolReturn ==
    /\ h_pc = "while" /\ h_current > semester_end
    /\ holidays' = SortSet(SeqRange(holiday_list))
    /\ h_pc' = "done"
    /\ UNCHANGED <<variant, uiVars, exVars, tiVars, rangeVars, icVars, all_events,
                   active_weeks, single_events_found, holiday_list, h_current, h_idx>>

NextHoliday ==
    \/ HolCollectSingle
    \/ HolCollectSkip
    \/ HolNoSingles
    \/ HolStartWalk
    \/ HolStride
    \/ HolReturn

SpecHoliday == InitHoliday /\ [][NextHoliday]_vars

\* --------------------------------------------------------- generate_ics
\* weekday_map[w]; KeyError is the value -1
weekday_map(w) ==
    IF w = <<"M", "o">> THEN 0
    ELSE IF w = <<"D", "i">> THEN 1
    ELSE IF w = <<"M", "i">> THEN 2
    ELSE IF w = <<"D", "o">> THEN 3
    ELSE IF w = <<"F", "r">> THEN 4
    ELSE IF w = <<"S", "a">> THEN 5
    ELSE IF w = <<"S", "o">> THEN 6
    ELSE -1

\* "while current.weekday() != target_weekday: current += timedelta(days=1)"
RECURSIVE AdvanceTo(_, _)
AdvanceTo(d, target_weekday) ==
    IF WeekdayOf(d) # target_weekday THEN AdvanceTo(d + 1, target_weekday) ELSE d

\* the Event built from a record and the parsed begin and end
MakeEvent(event, b, e) ==
    [name |-> event.full_label, location |-> event.location,
     begin |-> [ordinal |-> b.ordinal, minutes |-> b.minutes],
     end |-> [ordinal |-> e.ordinal, minutes |-> e.minutes]]

\* one record over every range and every choice of holiday weeks, or a batch of
\* several records over a few of them
InitIcs ==
    /\ variant = "v2"
    /\ \/ /\ selected_events \in SeqsOf(SelectedPool, 0, 1)
          /\ \E r \in Ranges : semester_start = r[1] /\ semester_end = r[2]
          /\ holiday_weeks \in HolidayChoices
       \/ /\ selected_events \in SeqsOf(SelectedPool, 2, MaxSelected)
          /\ \E r \in BatchRanges : semester_start = r[1] /\ semester_end = r[2]
          /\ holiday_weeks \in BatchHolidayChoices
    /\ calendar = <<>> /\ origin = <<>>
    /\ g_idx = 1 /\ g_current = 0 /\ g_pc = "for"
    /\ ExtractOff /\ TitleOff /\ HolidayOff /\ UiOff

\* mutant: a 'single' record gets its Event only when its date lies in the
\* semester range and outside the holiday weeks
IcsSingleInRangeOnly ==
    /\ g_pc = "for" /\ g_idx <= Len(selected_events)
    /\ selected_events[g_idx].type = single
    /\ LET event == selected_events[g_idx]
           start_dt == ParseDateTime(event.date, event.start_time)
           end_dt == ParseDateTime(event.date, event.end_time)
       IN  /\ start_dt.ok /\ end_dt.ok
           /\ IF /\ start_dt.ordinal \in semester_start..semester_end
                 /\ IsoWeek(start_dt.ordinal) \notin SeqRange(holiday_weeks)
              THEN /\ calendar' = Append(calendar, MakeEvent(event, start_dt, end_dt))
                   /\ origin' = Append(origin, g_idx)
              ELSE UNCHANGED <<calendar, origin>>
    /\ g_idx' = g_idx + 1
    /\ UNCHANGED <<variant, uiVars, exVars, tiVars, rangeVars, hoVars, selected_events,
                   holiday_weeks, g_current, g_pc>>

\* a 'single' record whose date and times parse: one Event
IcsSingle ==
    /\ g_pc = "for" /\ g_idx <= Len(selected_events)
    /\ selected_events[g_idx].type = single
    /\ LET event == selected_events[g_idx]
           start_dt == ParseDateTime(event.date, event.start_time)
           end_dt == ParseDateTime(event.date, event.end_time)
       IN  /\ start_dt.ok /\ end_dt.ok
           /\ calendar' = Append(calendar, MakeEvent(event, start_dt, end_dt))
           /\ origin' = Append(origin, g_idx)
    /\ g_idx' = g_idx + 1
    /\ UNCHANGED <<variant, uiVars, exVars, tiVars, rangeVars, hoVars, selected_events,
                   holiday_weeks, g_current, g_pc>>

\* a 'single' record, strptime raises ValueError: "except Exception: continue"
IcsSingleRaises ==
    /\ g_pc = "for" /\ g_idx <= Len(selected_events)
    /\ selected_events[g_idx].type = single
    /\ LET event == selected_events[g_idx] IN
          ~(/\ ParseDateTime(event.date, event.start_time).ok
            /\ ParseDateTime(event.date, event.end_time).ok)
    /\ g_idx' = g_idx + 1
    /\ UNCHANGED <<variant, uiVars, exVars, tiVars, rangeVars, hoVars, selected_events,
                   holiday_weeks, calendar, origin, g_current, g_pc>>

\* a 'recurring' record: the weekday is looked up and current advanced to the
\* first date on or after the semester start that falls on it
IcsRecurringEnter ==
    /\ g_pc = "for" /\ g_idx <= Len(selected_events)
    /\ selected_events[g_idx].type = recurring
    /\ weekday_map(selected_events[g_idx].weekday) # -1
    /\ g_current' = AdvanceTo(semester_start,
                              weekday_map(selected_events[g_idx].weekday))
    /\ g_pc' = "while"
    /\ UNCHANGED <<variant, uiVars, exVars, tiVars, rangeVars, hoVars, selected_events,
                   holiday_weeks, calendar, origin, g_idx>>

\* mutant: the KeyError is not caught and ends the batch
IcsWeekdayRaisesAborts ==
    /\ g_pc = "for" /\ g_idx <= Len(selected_events)
    /\ selected_events[g_idx].type = recurring
    /\ weekday_map(selected_events[g_idx].weekday) = -1
    /\ g_pc' = "done"
    /\ UNCHANGED <<variant, uiVars, exVars, tiVars, rangeVars, hoVars, selected_events,
                   holiday_weeks, calendar, origin, g_idx, g_current>>

\* a 'recurring' record, weekday_map raises KeyError: "except Exception: continue"
IcsWeekdayRaises ==
    /\ g_pc = "for" /\ g_idx <= Len(selected_events)
    /\ selected_events[g_idx].type = recurring
    /\ weekday_map(selected_events[g_idx].weekday) = -1
    /\ g_idx' = g_idx + 1
    /\ UNCHANGED <<variant, uiVars, exVars, tiVars, rangeVars, hoVars, selected_events,
                   holiday_weeks, calendar, origin, g_current, g_pc>>

\* mutant: a holiday week ends the weekly loop of the record
IcsHolidayBreak ==
    /\ g_pc = "while" /\ g_current <= semester_end
    /\ IsoWeek(g_current) \in SeqRange(holiday_weeks)
    /\ g_idx' = g_idx + 1
    /\ g_pc' = "for"
    /\ UNCHANGED <<variant, uiVars, exVars, tiVars, rangeVars, hoVars, selected_events,
                   holiday_weeks, calendar, origin, g_current>>

\* "while current <= end_dt_global", a holiday week: step on, "continue"
IcsHolidaySkip ==
    /\ g_pc = "while" /\ g_current <= semester_end
    /\ IsoWeek(g_current) \in SeqRange(holiday_weeks)
    /\ g_current' = g_current + 7
    /\ UNCHANGED <<variant, uiVars, exVars, tiVars, rangeVars, hoVars, selected_events,
                   holiday_weeks, calendar, origin, g_idx, g_pc>>

\* "while current <= end_dt_global", any other week: the date is formatted,
\* parsed again with the record's times, and the Event added
IcsEmit ==
    /\ g_pc = "while" /\ g_current <= semester_end
    /\ IsoWeek(g_current) \notin SeqRange(holiday_weeks)
    /\ LET event == selected_events[g_idx]
           dt_s == ParseDateTime(FormatDate(g_current), event.start_time)
           dt_e == ParseDateTime(FormatDate(g_current), event.end_time)
       IN  /\ dt_s.ok /\ dt_e.ok
           /\ calendar' = Append(calendar, MakeEvent(event, dt_s, dt_e))
           /\ origin' = Append(origin, g_idx)
    /\ g_current' = g_current + 7
    /\ UNCHANGED <<variant, uiVars, exVars, tiVars, rangeVars, hoVars, selected_events,
                   holiday_weeks, g_idx, g_pc>>

\* as IcsEmit, but strptime raises ValueError: the loop is left for the next
\* record, "except Exception: continue"
IcsEmitRaises ==
    /\ g_pc = "while" /\ g_current <= semester_end
    /\ IsoWeek(g_current) \notin SeqRange(holiday_weeks)
    /\ LET event == selected_events[g_idx] IN
          ~(/\ ParseDateTime(FormatDate(g_current), event.start_time).ok
            /\ ParseDateTime(FormatDate(g_current), event.end_time).ok)
    /\ g_idx' = g_idx + 1
    /\ g_pc' = "for"
    /\ UNCHANGED <<variant, uiVars, exVars, tiVars, rangeVars, hoVars, selected_events,
                   holiday_weeks, calendar, origin, g_current>>

\* the weekly loop ends past the semester end
IcsLoopExit ==
    /\ g_pc = "while" /\ g_current > semester_end
    /\ g_idx' = g_idx + 1
    /\ g_pc' = "for"
    /\ UNCHANGED <<variant, uiVars, exVars, tiVars, rangeVars, hoVars, selected_events,
                   holiday_weeks, calendar, origin, g_current>>

\* "return c.serialize()"
IcsReturn ==
    /\ g_pc = "for" /\ g_idx > Len(selected_events)
    /\ g_pc' = "done"
    /\ UNCHANGED <<variant, uiVars, exVars, tiVars, rangeVars, hoVars, selected_events,
                   holiday_weeks, calendar, origin, g_idx, g_current>>

NextIcs ==
    \/ IcsSingle
    \/ IcsSingleRaises
    \/ IcsRecurringEnter
    \/ IcsWeekdayRaises
    \/ IcsHolidaySkip
    \/ IcsEmit
    \/ IcsEmitRaises
    \/ IcsLoopExit
    \/ IcsReturn

SpecIcs == InitIcs /\ [][NextIcs]_vars

\* the concatenation of a sequence of sequences
RECURSIVE Flatten(_)
Flatten(ss) == IF ss = <<>> THEN <<>> ELSE Head(ss) \o Flatten(Tail(ss))

\* ============================================== the page: search and select
\* the characters of identifiers, titles and labels in code point order, the
\* order by which sorted() compares strings
CodePointOrder ==
    <<" ", ",", "-", ".", "0", "1", "2", "3", "4", "5", "6", "7", "8",
      "9", ":", "@", "A", "B", "C", "D", "E", "F", "G", "H", "I", "J",
      "K", "L", "M", "N", "O", "P", "Q", "R", "S", "T", "U", "V", "W",
      "X", "Y", "Z", "_", "a", "b", "c", "d", "e", "f", "g", "h", "i",
      "j", "k", "l", "m", "n", "o", "p", "q", "r", "s", "t", "u", "v",
      "w", "x", "y", "z", "|", "Ä", "Ö", "Ü", "ß", "ä", "ö", "ü">>

CodePointRank(c) == CHOOSE k \in 1..Len(CodePointOrder) : CodePointOrder[k] = c

\* a < b for two strings
StrLess(a, b) ==
    \E k \in 1..Len(b) :
        /\ k - 1 <= Len(a)
        /\ \A j \in 1..(k - 1) : a[j] = b[j]
        /\ k > Len(a) \/ CodePointRank(a[k]) < CodePointRank(b[k])

\* sorted(S) for a set of strings
RECURSIVE SortStrings(_)
SortStrings(S) ==
    IF S = {} THEN <<>>
    ELSE LET least == CHOOSE x \in S : \A y \in S \ {x} : StrLess(x, y)
         IN  <<least>> \o SortStrings(S \ {least})

\* s.split(','): the pieces between consecutive commas
SplitComma(s) ==
    LET cm == {i \in 1..Len(s) : s[i] = ","}
        At(k) == IF k = 0 THEN 0
                 ELSE IF k = Cardinality(cm) + 1 THEN Len(s) + 1
                 ELSE CHOOSE p \in cm : Cardinality({q \in cm : q < p}) = k - 1
    IN  [k \in 1..(Cardinality(cm) + 1) |-> SubSeq(s, At(k - 1) + 1, At(k) - 1)]

\* [s.strip() for s in query.split(',') if s.strip()]
SearchIds(q) ==
    LET pieces == SplitComma(q)
        kept == SelectSeq(pieces, LAMBDA piece : Strip(piece) # <<>>)
    IN  [k \in 1..Len(kept) |-> Strip(kept[k])]

\* mutant: the identifier must equal the token
MatchesExactly(s_id, evs) == SelectSeq(evs, LAMBDA e : e.id = s_id)

\* [e for e in all_events if e['id'].startswith(s_id)]
MatchesOf(s_id, evs) == SelectSeq(evs, LAMBDA e : StartsWithAt(e.id, 1, s_id))

\* f"{x}" of a date: the date, or "None"
FormatOptional(x) == IF x = None THEN <<"N", "o", "n", "e">> ELSE x

\* sig = f"{e['id']}|{e['title']}|{e['weekday']}|{e['start_time']}|{e['date']}"
Sig(e) ==
    e.id \o <<"|">> \o e.title \o <<"|">> \o e.weekday \o <<"|">>
    \o e.start_time \o <<"|">> \o FormatOptional(e.date)

\* a record of process_event_block
Session(id, title, weekday, date, start_time, end_time, location) ==
    [id |-> id, title |-> title, full_label |-> id \o <<" ">> \o title,
     type |-> IF date # None THEN single ELSE recurring,
     date |-> date, weekday |-> weekday,
     start_time |-> start_time, end_time |-> end_time, location |-> location]

\* ai_studio_code-3.py: the record with its signature
WithSignature(e, signature) == e @@ [signature |-> signature]

\* the records of the document
\*     1.3 M - G
\*     Di 10:00-12:00
\*     1.3.1 S-A
\*     Di 10:00-12:00 Raum A1
\*     Di 10:00-12:00 Aula B.2
\*     Di 10:00-11:00 Raum A1
\*     Di 07.01.2025 10:00-12:00 Raum A1
\*     1.3.1 S-B
\*     Di 10:00-12:00 Raum A1
\*     10.2 K
\*     Fr 08:00-09:00
\* as vorlesungen2.py ("v2") and ai_studio_code-3.py ("ai") extract them
\* "Di 10:00-12:00" under "1.3 M - G"
PageModule(v) ==
    IF v = "v2"
    THEN Session(<<"1", ".", "3">>, <<"M">>, <<"D", "i">>, None,
                <<"1", "0", ":", "0", "0">>, <<"1", "2", ":", "0", "0">>,
                TBA)
    ELSE WithSignature(
            Session(<<"1", ".", "3">>, <<"M">>, <<"D", "i">>, None,
                    <<"1", "0", ":", "0", "0">>, <<"1", "2", ":", "0", "0">>,
                    TBA),
            <<"D", "i", " ", "1", "0", ":", "0", "0", "-", "1", "2", ":", "0", "0", " ", "@", " ", "T", "B", "A">>)
\* "Di 10:00-12:00 Raum A1" under "1.3.1 S-A"
PageCourse(v) ==
    IF v = "v2"
    THEN Session(<<"1", ".", "3", ".", "1">>, <<"S", "-", "A">>, <<"D", "i">>, None,
                <<"1", "0", ":", "0", "0">>, <<"1", "2", ":", "0", "0">>,
                <<"R", "a", "u", "m", " ", "A", "1">>)
    ELSE WithSignature(
            Session(<<"1", ".", "3", ".", "1">>, <<"S">>, <<"D", "i">>, None,
                    <<"1", "0", ":", "0", "0">>, <<"1", "2", ":", "0", "0">>,
                    <<"R", "a", "u", "m", " ", "A", "1">>),
            <<"D", "i", " ", "1", "0", ":", "0", "0", "-", "1", "2", ":", "0", "0", " ", "@", " ", "R", "a", "u", "m", " ", "A", "1">>)
\* "Di 10:00-12:00 Aula B.2" under "1.3.1 S-A"
PageOtherRoom(v) ==
    IF v = "v2"
    THEN Session(<<"1", ".", "3", ".", "1">>, <<"S", "-", "A">>, <<"D", "i">>, None,
                <<"1", "0", ":", "0", "0">>, <<"1", "2", ":", "0", "0">>,
                <<"A", "u", "l", "a", " ", "B", ".", "2">>)
    ELSE WithSignature(
            Session(<<"1", ".", "3", ".", "1">>, <<"S">>, <<"D", "i">>, None,
                    <<"1", "0", ":", "0", "0">>, <<"1", "2", ":", "0", "0">>,
                    <<"A", "u", "l", "a", " ", "B", ".", "2">>),
            <<"D", "i", " ", "1", "0", ":", "0", "0", "-", "1", "2", ":", "0", "0", " ", "@", " ", "A", "u", "l", "a", " ", "B", ".", "2">>)
\* "Di 10:00-11:00 Raum A1" under "1.3.1 S-A"
PageOtherEnd(v) ==
    IF v = "v2"
    THEN Session(<<"1", ".", "3", ".", "1">>, <<"S", "-", "A">>, <<"D", "i">>, None,
                <<"1", "0", ":", "0", "0">>, <<"1", "1", ":", "0", "0">>,
                <<"R", "a", "u", "m", " ", "A", "1">>)
    ELSE WithSignature(
            Session(<<"1", ".", "3", ".", "1">>, <<"S">>, <<"D", "i">>, None,
                    <<"1", "0", ":", "0", "0">>, <<"1", "1", ":", "0", "0">>,
                    <<"R", "a", "u", "m", " ", "A", "1">>),
            <<"D", "i", " ", "1", "0", ":", "0", "0", "-", "1", "1", ":", "0", "0", " ", "@", " ", "R", "a", "u", "m", " ", "A", "1">>)
\* "Di 07.01.2025 10:00-12:00 Raum A1" under "1.3.1 S-A": PageCourse on one date
PageDated(v) ==
    IF v = "v2"
    THEN Session(<<"1", ".", "3", ".", "1">>, <<"S", "-", "A">>, <<"D", "i">>, <<"0", "7", ".", "0", "1", ".", "2", "0", "2", "5">>,
                <<"1", "0", ":", "0", "0">>, <<"1", "2", ":", "0", "0">>,
                <<"R", "a", "u", "m", " ", "A", "1">>)
    ELSE WithSignature(
            Session(<<"1", ".", "3", ".", "1">>, <<"S">>, <<"D", "i">>, <<"0", "7", ".", "0", "1", ".", "2", "0", "2", "5">>,
                    <<"1", "0", ":", "0", "0">>, <<"1", "2", ":", "0", "0">>,
                    <<"R", "a", "u", "m", " ", "A", "1">>),
            <<"D", "i", " ", "1", "0", ":", "0", "0", "-", "1", "2", ":", "0", "0", " ", "@", " ", "R", "a", "u", "m", " ", "A", "1">>)
\* "Di 10:00-12:00 Raum A1" under "1.3.1 S-B"
PageGroupB(v) ==
    IF v = "v2"
    THEN Session(<<"1", ".", "3", ".", "1">>, <<"S", "-", "B">>, <<"D", "i">>, None,
                <<"1", "0", ":", "0", "0">>, <<"1", "2", ":", "0", "0">>,
                <<"R", "a", "u", "m", " ", "A", "1">>)
    ELSE WithSignature(
            Session(<<"1", ".", "3", ".", "1">>, <<"S">>, <<"D", "i">>, None,
                    <<"1", "0", ":", "0", "0">>, <<"1", "2", ":", "0", "0">>,
                    <<"R", "a", "u", "m", " ", "A", "1">>),
            <<"D", "i", " ", "1", "0", ":", "0", "0", "-", "1", "2", ":", "0", "0", " ", "@", " ", "R", "a", "u", "m", " ", "A", "1">>)
\* "Fr 08:00-09:00" under "10.2 K"
PageOther(v) ==
    IF v = "v2"
    THEN Session(<<"1", "0", ".", "2">>, <<"K">>, <<"F", "r">>, None,
                <<"0", "8", ":", "0", "0">>, <<"0", "9", ":", "0", "0">>,
                TBA)
    ELSE WithSignature(
            Session(<<"1", "0", ".", "2">>, <<"K">>, <<"F", "r">>, None,
                    <<"0", "8", ":", "0", "0">>, <<"0", "9", ":", "0", "0">>,
                    TBA),
            <<"F", "r", " ", "0", "8", ":", "0", "0", "-", "0", "9", ":", "0", "0", " ", "@", " ", "T", "B", "A">>)

PagePool(v) == {PageModule(v), PageCourse(v), PageOtherRoom(v), PageOtherEnd(v), PageDated(v), PageGroupB(v), PageOther(v)}

\* the texts typed into the search field
\* "": nothing typed
QueryNone == <<>>
\* "1.3"
QueryModule == <<"1", ".", "3">>
\* "1.3.1"
QueryCourse == <<"1", ".", "3", ".", "1">>
\* "1.3, 1.3.1": two overlapping tokens
QueryBoth == <<"1", ".", "3", ",", " ", "1", ".", "3", ".", "1">>
\* " 10.2 ,,": blanks and empty pieces
QueryOther == <<" ", "1", "0", ".", "2", " ", ",", ",">>
\* "4": no identifier starts with it
QueryMiss == <<"4">>
QueryPool == {QueryNone, QueryModule, QueryCourse, QueryBoth, QueryOther, QueryMiss}

\* the records of the document, read from st.session_state: any MaxRecords of
\* the pool in any order, a record possibly more than once
InitPage ==
    /\ variant \in {"v2", "ai"}
    /\ all_events \in SeqsOf(PagePool(variant), 0, MaxRecords)
    /\ query \in QueryPool
    /\ search_ids = <<>> /\ f_idx = 0 /\ matched_events = <<>>
    /\ final_events_to_process = <<>> /\ unique_events = <<>>
    /\ seen_signatures = {} /\ u_idx = 0 /\ s_pc = "query"
    /\ active_weeks = {} /\ single_events_found = FALSE /\ holiday_list = <<>>
    /\ h_current = 0 /\ h_idx = 0 /\ h_pc = "off" /\ holidays = <<>>
    /\ ExtractOff /\ TitleOff /\ RangeOff /\ IcsOff

\* "if query:" is false: nothing is searched, nothing is chosen
PageNoQuery ==
    /\ s_pc = "query" /\ query = <<>>
    /\ s_pc' = "done"
    /\ UNCHANGED <<variant, query, search_ids, f_idx, matched_events,
                   final_events_to_process, unique_events, seen_signatures, u_idx,
                   exVars, tiVars, dtVars>>

\* "search_ids = [...]; matched_events = []"
PageSplitQuery ==
    /\ s_pc = "query" /\ query # <<>>
    /\ search_ids' = SearchIds(query)
    /\ matched_events' = <<>>
    /\ f_idx' = 1
    /\ s_pc' = "filter"
    /\ UNCHANGED <<variant, query, final_events_to_process, unique_events,
                   seen_signatures, u_idx, exVars, tiVars, dtVars>>

\* one pass of "for s_id in search_ids": the matches of the token are appended
FilterToken ==
    /\ s_pc = "filter" /\ f_idx <= Len(search_ids)
    /\ matched_events' = matched_events \o MatchesOf(search_ids[f_idx], all_events)
    /\ f_idx' = f_idx + 1
    /\ UNCHANGED <<variant, query, search_ids, final_events_to_process,
                   unique_events, seen_signatures, u_idx, s_pc,
                   exVars, tiVars, dtVars>>

\* "if not matched_events:" the warning, nothing is chosen
FilterNoMatch ==
    /\ s_pc = "filter" /\ f_idx > Len(search_ids)
    /\ matched_events = <<>>
    /\ s_pc' = "done"
    /\ UNCHANGED <<variant, query, search_ids, f_idx, matched_events,
                   final_events_to_process, unique_events, seen_signatures, u_idx,
                   exVars, tiVars, dtVars>>

\* vorlesungen2.py: the (identifier, title) groups of the matches, identifiers
\* sorted and the titles of an identifier sorted
TitleGroups(evs) ==
    LET ids == SortStrings({evs[i].id : i \in 1..Len(evs)})
        TitlesOf(eid) ==
            SortStrings({evs[i].title : i \in {j \in 1..Len(evs) : evs[j].id = eid}})
    IN  Flatten([k \in 1..Len(ids) |->
                    [j \in 1..Len(TitlesOf(ids[k])) |-> <<ids[k], TitlesOf(ids[k])[j]>>]])

\* vorlesungen2.py: the matches are grouped by identifier and title, every
\* group has a checkbox, and the records of the ticked groups are collected in
\* group order; which boxes are ticked is the user's choice. A selection that is
\* not empty goes on to the deduplication.
SelectGroups ==
    /\ s_pc = "filter" /\ f_idx > Len(search_ids)
    /\ matched_events # <<>>
    /\ variant = "v2"
    /\ LET groups == TitleGroups(matched_events) IN
       \E ticked \in SUBSET SeqRange(groups) :
          final_events_to_process' =
             Flatten([k \in 1..Len(groups) |->
                        IF groups[k] \in ticked
                        THEN SelectSeq(matched_events,
                                       LAMBDA e : /\ e.id = groups[k][1]
                                                  /\ e.title = groups[k][2])
                        ELSE <<>>])
    /\ unique_events' = <<>>
    /\ seen_signatures' = {}
    /\ u_idx' = 1
    /\ s_pc' = IF final_events_to_process' # <<>> THEN "dedup" ELSE "done"
    /\ UNCHANGED <<variant, query, search_ids, f_idx, matched_events,
                   exVars, tiVars, dtVars>>

\* vorlesungen2.py, "if sig not in seen_signatures:" the record is kept
DedupKeep ==
    /\ s_pc = "dedup" /\ u_idx <= Len(final_events_to_process)
    /\ Sig(final_events_to_process[u_idx]) \notin seen_signatures
    /\ seen_signatures' = seen_signatures \cup {Sig(final_events_to_process[u_idx])}
    /\ unique_events' = Append(unique_events, final_events_to_process[u_idx])
    /\ u_idx' = u_idx + 1
    /\ UNCHANGED <<variant, query, search_ids, f_idx, matched_events,
                   final_events_to_process, s_pc, exVars, tiVars, dtVars>>

\* mutant: a record whose key was seen is kept all the same
DedupDropKeepsRecord ==
    /\ s_pc = "dedup" /\ u_idx <= Len(final_events_to_process)
    /\ Sig(final_events_to_process[u_idx]) \in seen_signatures
    /\ unique_events' = Append(unique_events, final_events_to_process[u_idx])
    /\ u_idx' = u_idx + 1
    /\ UNCHANGED <<variant, query, search_ids, f_idx, matched_events,
                   final_events_to_process, seen_signatures, s_pc,
                   exVars, tiVars, dtVars>>

\* vorlesungen2.py, the key was seen: the record is dropped
DedupDrop ==
    /\ s_pc = "dedup" /\ u_idx <= Len(final_events_to_process)
    /\ Sig(final_events_to_process[u_idx]) \in seen_signatures
    /\ u_idx' = u_idx + 1
    /\ UNCHANGED <<variant, query, search_ids, f_idx, matched_events,
                   final_events_to_process, unique_events, seen_signatures, s_pc,
                   exVars, tiVars, dtVars>>

\* vorlesungen2.py, "final_events_to_process = unique_events": the list handed
\* to generate_ics
DedupFinish ==
    /\ s_pc = "dedup" /\ u_idx > Len(final_events_to_process)
    /\ final_events_to_process' = unique_events
    /\ s_pc' = "done"
    /\ UNCHANGED <<variant, query, search_ids, f_idx, matched_events,
                   unique_events, seen_signatures, u_idx, exVars, tiVars, dtVars>>

\* ai_studio_code-3.py: unique_slots keeps the first variant of every signature
SlotList(variants) ==
    SelectSeq([i \in 1..Len(variants) |->
                  IF \E j \in 1..(i - 1) : variants[j].signature = variants[i].signature
                  THEN None ELSE variants[i]],
              LAMBDA v : v # None)

\* ai_studio_code-3.py: the label of a slot in the multiselect
SlotLabel(v) ==
    v.weekday \o <<" ">> \o v.start_time \o <<"-">> \o v.end_time
    \o <<" ", "(">> \o v.location \o <<")">>

\* ai_studio_code-3.py: options[label], the last slot with that label
OptionOf(slot_list, label) ==
    slot_list[CHOOSE i \in 1..Len(slot_list) :
                 /\ SlotLabel(slot_list[i]) = label
                 /\ \A j \in (i + 1)..Len(slot_list) : SlotLabel(slot_list[j]) # label]

\* ai_studio_code-3.py: what an identifier can add to the selection: its only
\* slot, or the slots of the labels the user picks, in the order picked
SlotChoices(slot_list) ==
    IF Len(slot_list) = 1 THEN {slot_list}
    ELSE LET labels == {SlotLabel(slot_list[i]) : i \in 1..Len(slot_list)}
             picks == {p \in SeqsOf(labels, 0, Cardinality(labels)) :
                          \A a, b \in 1..Len(p) : a # b => p[a] # p[b]}
         IN  {[k \in 1..Len(p) |-> OptionOf(slot_list, p[k])] : p \in picks}

\* final_selection_variants.sort(key=lambda x: x['id']): a stable sort
SortById(evs) ==
    LET ids == SortStrings({evs[i].id : i \in 1..Len(evs)})
    IN  Flatten([k \in 1..Len(ids) |-> SelectSeq(evs, LAMBDA e : e.id = ids[k])])

\* ai_studio_code-3.py: the matches are grouped by identifier, the identifiers
\* taken in sorted order, every identifier reduced to its slots and the chosen
\* slots collected; the selection is sorted by identifier and handed to
\* generate_ics
SelectSlots ==
    /\ s_pc = "filter" /\ f_idx > Len(search_ids)
    /\ matched_events # <<>>
    /\ variant = "ai"
    /\ LET ids == SortStrings({matched_events[i].id : i \in 1..Len(matched_events)})
           SlotsOf(mid) ==
               SlotList(SelectSeq(matched_events, LAMBDA e : e.id = mid))
       IN  \E chosen \in [1..Len(ids) ->
                            UNION {SlotChoices(SlotsOf(ids[k])) : k \in 1..Len(ids)}] :
              /\ \A k \in 1..Len(ids) : chosen[k] \in SlotChoices(SlotsOf(ids[k]))
              /\ final_events_to_process' = SortById(Flatten(chosen))
    /\ s_pc' = "done"
    /\ UNCHANGED <<variant, query, search_ids, f_idx, matched_events,
                   unique_events, seen_signatures, u_idx, exVars, tiVars, dtVars>>

NextPage ==
    \/ PageNoQuery
    \/ PageSplitQuery
    \/ FilterToken
    \/ FilterNoMatch
    \/ SelectGroups
    \/ DedupKeep
    \/ DedupDrop
    \/ DedupFinish
    \/ SelectSlots

SpecPage == InitPage /\ [][NextPage]_vars

\* =================================================================== C1
\* the Events added for record i of the batch, in calendar order
EntriesOf(i) ==
    LET own == SelectSeq([n \in 1..Len(calendar) |-> n], LAMBDA n : origin[n] = i)
    IN  [k \in 1..Len(own) |-> calendar[own[k]]]

DatesOf(i) == [k \in 1..Len(EntriesOf(i)) |-> EntriesOf(i)[k].begin.ordinal]

TimesParse(event) ==
    ParseTime(event.start_time).ok /\ ParseTime(event.end_time).ok

\* the first date on or after the semester start that falls on weekday w
FirstOn(w) ==
    CHOOSE d \in semester_start..(semester_start + 6) : WeekdayOf(d) = w

\* the dates f + 7k up to the semester end whose week is no holiday week
StrideDates(f) ==
    {d \in f..semester_end :
        (d - f) % 7 = 0 /\ IsoWeek(d) \notin SeqRange(holiday_weeks)}

IsAscending(xs) == \A a, b \in 1..Len(xs) : a < b => xs[a] < xs[b]

\* C1: when generate_ics returns, the occurrences of every RECURRING record
\* with a weekday of Mo..So and parseable times fall, in ascending order, on
\* exactly the dates f + 7k <= semester end whose ISO week is not a holiday
\* week, f being the first date on or after the semester start on that weekday.
C1_RecurringOccurrences ==
    g_pc = "done" =>
        \A i \in 1..Len(selected_events) :
            LET event == selected_events[i] IN
            (/\ event.type = recurring
             /\ weekday_map(event.weekday) \in 0..6
             /\ TimesParse(event))
            => /\ IsAscending(DatesOf(i))
               /\ SeqRange(DatesOf(i))
                     = StrideDates(FirstOn(weekday_map(event.weekday)))

\* weekday Di, holiday weeks {3}, a range of the six weeks 1..6: five
\* occurrences, none in week 3, some after it
C1_Witness ==
    /\ g_pc = "done"
    /\ selected_events = <<SessDi>>
    /\ SeqRange(holiday_weeks) = {3}
    /\ IsoWeek(semester_start) = 1 /\ semester_end = semester_start + 41
    /\ Len(calendar) = 5
    /\ \A n \in 1..Len(calendar) : IsoWeek(calendar[n].begin.ordinal) # 3
    /\ \E n \in 1..Len(calendar) : IsoWeek(calendar[n].begin.ordinal) > 3

\* =================================================================== C2
\* the ISO weeks of the ONE_OFF dates that parse
ParsedWeeks ==
    {IsoWeek(ParseDate(all_events[i].date).ordinal) :
        i \in {j \in 1..Len(all_events) :
                  /\ all_events[j].type = single
                  /\ ParseDate(all_events[j].date).ok}}

\* the ISO weeks of the dates start + 7k up to the semester end
StrideWeeks ==
    {IsoWeek(d) : d \in {x \in semester_start..semester_end :
                            (x - semester_start) % 7 = 0}}

\* C2: when at least one ONE_OFF date parses, detect_holiday_weeks returns, in
\* ascending order and without duplicates, exactly the ISO weeks of the dates
\* start + 7k <= end that are not the week of a parsed ONE_OFF date.
C2_HolidayWeeks ==
    (h_pc = "done" /\ ParsedWeeks # {}) =>
        /\ IsAscending(holidays)
        /\ SeqRange(holidays) = StrideWeeks \ ParsedWeeks

\* ONE_OFF sessions in weeks 2, 4 and 6 over a range of weeks 1..6
C2_Witness ==
    /\ h_pc = "done"
    /\ ParsedWeeks = {2, 4, 6}
    /\ StrideWeeks = 1..6
    /\ holidays = <<1, 3, 5>>

\* =================================================================== C3
\* C3 (as claimed): detect_holiday_weeks returns the empty list whenever no
\* ONE_OFF date parses, be it that there is no ONE_OFF record or that every
\* ONE_OFF date is malformed.
C3_EmptyWhenNothingParses ==
    (h_pc = "done" /\ ParsedWeeks = {}) => holidays = <<>>

\* =================================================================== C4
\* the ISO weeks with a date inside the semester range
RangeWeeks == {IsoWeek(d) : d \in semester_start..semester_end}

\* C4 (as claimed): when a ONE_OFF record exists, every ISO week with a date
\* inside [start, end] and without a ONE_OFF session is among the weeks
\* detect_holiday_weeks returns.
C4_EveryFreeWeek ==
    (/\ h_pc = "done"
     /\ \E i \in 1..Len(all_events) : all_events[i].type = single)
    => (RangeWeeks \ ParsedWeeks) \subseteq SeqRange(holidays)

\* =================================================================== C5
\* C5: when generate_ics returns, every ONE_OFF record whose date and times
\* parse has exactly one occurrence, on the record's date from start_time to
\* end_time, whatever its weekday abbreviation, the semester range and the
\* holiday weeks are.
C5_OneOffOccurrence ==
    g_pc = "done" =>
        \A i \in 1..Len(selected_events) :
            LET event == selected_events[i] IN
            (/\ event.type = single
             /\ ParseDate(event.date).ok
             /\ TimesParse(event))
            => /\ Len(EntriesOf(i)) = 1
               /\ FormatDate(EntriesOf(i)[1].begin.ordinal) = event.date
               /\ EntriesOf(i)[1].begin.minutes = ParseTime(event.start_time).minutes
               /\ EntriesOf(i)[1].end.ordinal = EntriesOf(i)[1].begin.ordinal
               /\ EntriesOf(i)[1].end.minutes = ParseTime(event.end_time).minutes

\* a ONE_OFF record labelled "Mo" whose date is no Monday, lies outside the
\* semester range and in a holiday week, got its occurrence
C5_Witness ==
    /\ g_pc = "done"
    /\ \E i \in 1..Len(selected_events) :
          LET event == selected_events[i] IN
          /\ event.type = single /\ ParseDate(event.date).ok
          /\ weekday_map(event.weekday) = 0
          /\ WeekdayOf(ParseDate(event.date).ordinal) # 0
          /\ ParseDate(event.date).ordinal \notin semester_start..semester_end
          /\ IsoWeek(ParseDate(event.date).ordinal) \in SeqRange(holiday_weeks)
          /\ Len(EntriesOf(i)) = 1
          /\ EntriesOf(i)[1].begin.ordinal = ParseDate(event.date).ordinal

\* =================================================================== C6
\* the record fails: a ONE_OFF date or time that does not parse, a weekday that
\* is none of Mo..So, a RECURRING start or end time that does not parse
Fails(event) ==
    IF event.type = single
    THEN ~(ParseDate(event.date).ok /\ TimesParse(event))
    ELSE weekday_map(event.weekday) = -1 \/ ~TimesParse(event)

Occurrence(event, d) ==
    [name |-> event.full_label, location |-> event.location,
     begin |-> [ordinal |-> d, minutes |-> ParseTime(event.start_time).minutes],
     end |-> [ordinal |-> d, minutes |-> ParseTime(event.end_time).minutes]]

\* the occurrences of a record that does not fail
OccurrencesOf(event) ==
    IF event.type = single
    THEN <<Occurrence(event, ParseDate(event.date).ordinal)>>
    ELSE LET ds == SortSet(StrideDates(FirstOn(weekday_map(event.weekday))))
         IN  [k \in 1..Len(ds) |-> Occurrence(event, ds[k])]

\* the batch without its failing records
Sound == SelectSeq(selected_events, LAMBDA event : ~Fails(event))

\* C6: at no point of generate_ics does the calendar hold an occurrence of a
\* failing record; generate_ics returns only after the last record of the
\* batch, failing or not; and the calendar returned is the one of the batch
\* without its failing records.
C6_FailureIsolation ==
    /\ \A n \in 1..Len(origin) : ~Fails(selected_events[origin[n]])
    /\ g_pc = "done" =>
          /\ g_idx = Len(selected_events) + 1
          /\ calendar = Flatten([i \in 1..Len(Sound) |-> OccurrencesOf(Sound[i])])

\* a batch whose first record fails and whose second does not returned the
\* occurrences of the second
C6_Witness ==
    /\ g_pc = "done" /\ Len(selected_events) = 2
    /\ Fails(selected_events[1]) /\ ~Fails(selected_events[2])
    /\ calendar # <<>>
    /\ \A n \in 1..Len(origin) : origin[n] = 2

\* =================================================================== C7
AnchorLines == {i \in 1..Len(lines) : id_pattern_match(lines[i])}

\* C7: when extract_events returns, the line groups handed to
\* process_event_block each start with an anchor line and hold no other anchor
\* line; concatenated they are the input lines from the first anchor line to the
\* last line; the records are those of the groups, in order; an input without an
\* anchor line gives no group and no record.
C7_Segmentation ==
    pc = "done" =>
        /\ \A b \in 1..Len(blocks) :
              /\ blocks[b] # <<>>
              /\ id_pattern_match(blocks[b][1])
              /\ \A j \in 2..Len(blocks[b]) : ~id_pattern_match(blocks[b][j])
        /\ Flatten(blocks) = IF AnchorLines = {} THEN <<>>
                             ELSE SubSeq(lines, Min(AnchorLines), Len(lines))
        /\ events = Flatten([b \in 1..Len(blocks) |->
                                process_event_block(variant, blocks[b])])
        /\ AnchorLines = {} => blocks = <<>> /\ events = <<>>

\* a line before the first anchor was discarded, one block was closed by the
\* next anchor and the trailing block by the end of the input
C7_Witness ==
    /\ pc = "done" /\ Len(lines) = MaxLines
    /\ ~id_pattern_match(lines[1])
    /\ Len(blocks) = 2

\* =================================================================== C8
\* r is s without its leading and trailing white space
IsTrimOf(r, s) ==
    \E a \in 0..Len(s) : \E b \in a..Len(s) :
        /\ r = SubSeq(s, a + 1, b)
        /\ \A i \in 1..a : IsSpace(s[i])
        /\ \A i \in (b + 1)..Len(s) : IsSpace(s[i])
        /\ r # <<>> => ~IsSpace(r[1]) /\ ~IsSpace(r[Len(r)])

\* r is the trimmed text of s before its first hyphen
IsTrimmedPrefixBeforeHyphen(r, s) ==
    \E k \in 1..Len(s) :
        /\ s[k] = "-"
        /\ \A j \in 1..(k - 1) : s[j] # "-"
        /\ IsTrimOf(r, SubSeq(s, 1, k - 1))

NumDots(s) == Cardinality({i \in 1..Len(s) : s[i] = "."})

\* C8: clean_title_logic returns the trimmed text before the first hyphen for
\* an identifier with exactly one dot and a title with a hyphen, the trimmed
\* title for an identifier with two or more dots, and the trimmed title for a
\* title without a hyphen at every depth.
C8_DepthSensitiveTitle ==
    tpc = "ret" =>
        /\ NumDots(course_id) = 1 /\ HasHyphen(raw_title)
              => IsTrimmedPrefixBeforeHyphen(final_title, raw_title)
        /\ NumDots(course_id) >= 2 => IsTrimOf(final_title, raw_title)
        /\ ~HasHyphen(raw_title) => IsTrimOf(final_title, raw_title)

\* a hyphenated title under a three-component identifier came back whole
C8_Witness ==
    /\ tpc = "ret" /\ NumDots(course_id) = 2
    /\ HasHyphen(raw_title) /\ HasHyphen(final_title)
    /\ Len(final_title) < Len(raw_title)

\* =================================================================== C9
\* dd.mm.yyyy: ten characters, the last four of them the year
HasFourDigitYear(d) ==
    /\ Len(d) = 10
    /\ d[3] = "." /\ d[6] = "."
    /\ \A i \in {1, 2, 4, 5, 7, 8, 9, 10} : d[i] \in Digit

\* C9 (as claimed): every ONE_OFF record carries a date with a 4-digit year,
\* whatever year of 2, 3 or 4 digits the date token had.
C9_FourDigitYear ==
    \A i \in 1..Len(events) :
        events[i].type = single => HasFourDigitYear(events[i].date)

\* ================================================================== C10
\* a character of a location token: a word character or a dot
IsTokenChar(c) == IsWord(c) \/ c = "."

\* s[i..j] is a location marker: a keyword at i, then white space, then a
\* token of word characters and dots that ends at j and goes no further
IsMarker(s, i, j) ==
    /\ KeywordLenAt(s, i) > 0
    /\ j > i + KeywordLenAt(s, i)
    /\ IsSpace(s[i + KeywordLenAt(s, i)])
    /\ IsTokenChar(s[j])
    /\ j = Len(s) \/ ~IsTokenChar(s[j + 1])
    /\ \A k \in (i + KeywordLenAt(s, i))..(j - 1) :
          \/ IsSpace(s[k])
          \/ IsTokenChar(s[k]) /\ IsTokenChar(s[k + 1])

MarkerStarts(s) ==
    {i \in {k \in 1..Len(s) : KeywordLenAt(s, k) > 0} :
        \E j \in i..Len(s) : IsMarker(s, i, j)}

\* the text of the first marker of s
FirstMarker(s) ==
    LET i == Min(MarkerStarts(s))
        j == CHOOSE e \in i..Len(s) : IsMarker(s, i, e)
    IN  SubSeq(s, i, j)

ExpectedLocation(block, line) ==
    LET joined == JoinLines(block) IN
    IF MarkerStarts(line) # {} THEN FirstMarker(line)
    ELSE IF MarkerStarts(joined) # {} THEN FirstMarker(joined)
    ELSE TBA

\* the expected locations of the records of one block, in line order
ExpectedLocations(block) ==
    LET sess == SelectSeq([j \in 1..Len(block) |-> j],
                          LAMBDA j : TimeSearch(block[j]).ok)
    IN  [n \in 1..Len(sess) |-> ExpectedLocation(block, block[sess[n]])]

\* C10: when extract_events returns, the location of every record is the
\* first location marker of the record's own line if that line has one, else
\* the first location marker of the block (its lines joined, in line order),
\* else "TBA".
C10_Location ==
    pc = "done" =>
    [i \in 1..Len(events) |-> events[i].location]
        = Flatten([b \in 1..Len(blocks) |-> ExpectedLocations(blocks[b])])

\* a record took its location from a later line of its block
C10_Witness ==
    /\ pc = "done" /\ Len(blocks) = 1 /\ Len(events) = 1
    /\ Len(blocks[1]) = 3
    /\ TimeSearch(blocks[1][2]).ok
    /\ MarkerStarts(blocks[1][1]) = {} /\ MarkerStarts(blocks[1][2]) = {}
    /\ MarkerStarts(blocks[1][3]) # {}
    /\ events[1].location = FirstMarker(blocks[1][3])

\* ================================================================== C11
\* the key of the deduplication, as a tuple
KeyOf(e) == <<e.id, e.title, e.weekday, e.start_time, e.date>>

\* the records of evs that are the first of their key, in the order of evs
FirstOfEachKey(evs) ==
    LET firsts == {i \in 1..Len(evs) :
                      \A j \in 1..(i - 1) : KeyOf(evs[j]) # KeyOf(evs[i])}
    IN  [k \in 1..Cardinality(firsts) |->
            evs[CHOOSE i \in firsts : Cardinality({j \in firsts : j < i}) = k - 1]]

\* C11: at every point of the deduplication loop the kept records are, in list
\* order, the first record of every distinct key (identifier, title, weekday,
\* start_time, date) among the selected records seen so far; so after the loop
\* every key of the selection has exactly one record, the first, and the list
\* handed on has no two records with the same key.
C11_FirstOfEachKey ==
    /\ s_pc = "dedup" =>
          unique_events
             = FirstOfEachKey(SubSeq(final_events_to_process, 1, u_idx - 1))
    /\ (s_pc = "done" /\ variant = "v2") =>
          \A a, b \in 1..Len(final_events_to_process) :
              a # b => KeyOf(final_events_to_process[a])
                          # KeyOf(final_events_to_process[b])

\* the query "1.3, 1.3.1" matched a record twice, both copies were selected and
\* the loop kept one of them
C11_Witness ==
    /\ s_pc = "dedup" /\ u_idx > Len(final_events_to_process)
    /\ query = QueryBoth
    /\ \E a, b \in 1..Len(final_events_to_process) :
          /\ a < b
          /\ final_events_to_process[a] = final_events_to_process[b]
          /\ Cardinality({k \in 1..Len(unique_events) :
                             unique_events[k] = final_events_to_process[a]}) = 1
    /\ Len(unique_events) < Len(final_events_to_process)

\* ================================================================== C12
\* the signature together with identifier, title and date
FullKeyOf(e) ==
    <<e.id, e.title, e.date, e.weekday, e.start_time, e.end_time, e.location>>

\* C12 (as claimed): the key of the deduplication holds end_time and location
\* besides identifier, title, weekday, start_time and date: after the loop every
\* selected record that is the first with its seven fields is kept, so two
\* records that differ only in end_time or in location are both kept.
C12_FullRecordKey ==
    (s_pc = "dedup" /\ u_idx > Len(final_events_to_process)) =>
        \A i \in 1..Len(final_events_to_process) :
            (\A j \in 1..(i - 1) :
                FullKeyOf(final_events_to_process[j])
                   # FullKeyOf(final_events_to_process[i]))
            => \E k \in 1..Len(unique_events) :
                  unique_events[k] = final_events_to_process[i]

\* ================================================================== C13
\* w is a prefix of s
IsPrefix(w, s) == Len(w) <= Len(s) /\ \A k \in 1..Len(w) : s[k] = w[k]

\* the tokens of q as spans <<a, b>>: q[a..b] has no comma and no blank at
\* either end, and between it and the nearest comma (or the end of q) on each
\* side there are only blanks
TokenSpans(q) ==
    {sp \in (1..Len(q)) \X (1..Len(q)) :
        /\ sp[1] <= sp[2]
        /\ ~IsSpace(q[sp[1]]) /\ ~IsSpace(q[sp[2]])
        /\ \A k \in sp[1]..sp[2] : q[k] # ","
        /\ \A k \in 1..(sp[1] - 1) :
              (\A m \in k..(sp[1] - 1) : q[m] # ",") => IsSpace(q[k])
        /\ \A k \in (sp[2] + 1)..Len(q) :
              (\A m \in (sp[2] + 1)..k : q[m] # ",") => IsSpace(q[k])}

\* the records whose identifier starts with a token, token after token in the
\* order of the query, and for one token in the order of the records
RECURSIVE PrefixMatches(_, _, _)
PrefixMatches(q, spans, evs) ==
    IF spans = {} THEN <<>>
    ELSE LET sp == CHOOSE x \in spans : \A y \in spans : x[1] <= y[1]
             token == SubSeq(q, sp[1], sp[2])
         IN  SelectSeq(evs, LAMBDA e : IsPrefix(token, e.id))
                \o PrefixMatches(q, spans \ {sp}, evs)

FilterComplete == s_pc = "filter" /\ f_idx > Len(search_ids)

\* C13: once every token of the query has been looked up, the matches are the
\* records whose identifier starts with a trimmed non-empty token of the query,
\* token after token and in record order for each token; so a record whose own
\* identifier is one of the tokens is among the matches, and a record whose
\* identifier starts with no token is not.
C13_FilterByPrefix ==
    FilterComplete =>
        LET spans == TokenSpans(query)
            tokens == {SubSeq(query, sp[1], sp[2]) : sp \in spans}
            found == {matched_events[k] : k \in 1..Len(matched_events)}
        IN  /\ matched_events = PrefixMatches(query, spans, all_events)
            /\ \A i \in 1..Len(all_events) :
                  /\ all_events[i].id \in tokens => all_events[i] \in found
                  /\ all_events[i] \in found
                     <=> \E token \in tokens : IsPrefix(token, all_events[i].id)

\* "1.3, 1.3.1" over three records: one found by the first token only, one with
\* the second token as its identifier and found by both, one found by neither
C13_Witness ==
    /\ FilterComplete
    /\ query = QueryBoth
    /\ Len(all_events) = 3 /\ Len(matched_events) = 3
    /\ all_events[1].id = QueryModule
    /\ all_events[2].id = QueryCourse
    /\ matched_events = <<all_events[1], all_events[2], all_events[2]>>
    /\ all_events[3].id = <<"1", "0", ".", "2">>

\* ================================================================== C14
\* the records version v makes of each block of the input
BlockRecords(v) == [b \in 1..Len(blocks) |-> process_event_block(v, blocks[b])]

\* the fields of a record other than its title and what is built from the title
SameButTitle(e, f) ==
    /\ e.id = f.id /\ e.type = f.type /\ e.date = f.date
    /\ e.weekday = f.weekday /\ e.start_time = f.start_time
    /\ e.end_time = f.end_time /\ e.location = f.location

\* what the two versions make of one block with the header line given
BlockAgrees(v2, ai, header) ==
    LET cid == IdGroup(header)
        raw == TitleGroup(header)
    IN  /\ Len(v2) = Len(ai)
        /\ \A k \in 1..Len(v2) :
              /\ SameButTitle(v2[k], ai[k])
              /\ (NumDots(cid) = 1 \/ \A j \in 1..Len(raw) : raw[j] # "-")
                 => v2[k].title = ai[k].title
              /\ v2[k].title # ai[k].title
                 => /\ NumDots(cid) >= 2
                    /\ \E j \in 1..Len(raw) : raw[j] = "-"

\* C14: vorlesungen2.py and ai_studio_code-3.py extract from one text the same
\* number of records in the same order, with equal identifier, kind, date,
\* weekday, start_time, end_time and location: the records returned are those
\* of the blocks in block order, and block by block the two versions make the
\* same number of records with these fields equal. The titles are equal when
\* the identifier has exactly one dot or the raw title has no hyphen, and
\* differ only when the identifier has two or more dots and the raw title has a
\* hyphen.
C14_VariantsDifferInTitleOnly ==
    pc = "done" =>
        LET v2 == BlockRecords("v2")
            ai == BlockRecords("ai")
        IN  /\ events = Flatten(IF variant = "v2" THEN v2 ELSE ai)
            /\ Len(Flatten(v2)) = Len(Flatten(ai))
            /\ \A b \in 1..Len(blocks) : BlockAgrees(v2[b], ai[b], blocks[b][1])

\* a text with a module header "1.3 M - G", whose records have the same title
\* in both versions, and a course header "1.3.1 S-A ...", whose record has not
C14_Witness ==
    /\ pc = "done"
    /\ \E b \in 1..Len(blocks) :
          /\ NumDots(IdGroup(blocks[b][1])) = 1
          /\ \E j \in 1..Len(TitleGroup(blocks[b][1])) : TitleGroup(blocks[b][1])[j] = "-"
          /\ process_event_block("v2", blocks[b]) # <<>>
          /\ process_event_block("v2", blocks[b])[1].title
                = process_event_block("ai", blocks[b])[1].title
    /\ \E b \in 1..Len(blocks) :
          /\ NumDots(IdGroup(blocks[b][1])) = 2
          /\ process_event_block("v2", blocks[b]) # <<>>
          /\ process_event_block("v2", blocks[b])[1].title
                # process_event_block("ai", blocks[b])[1].title

====
